---- MODULE Spec2Model ----
(***************************************************************************)
(* A model of youtube_playlist_transcriber.py: the durable ledger file      *)
(* (transcribed_videos.json), the transcript files, and main()'s per-video  *)
(* loop with download_video_and_audio's retry loop.  A run is one process;  *)
(* it ends by exhausting the item list ("done"), by an uncaught exception   *)
(* ("crashed") or by being terminated from outside ("killed").  Later runs  *)
(* start from whatever the earlier ones left on disk.                       *)
(*                                                                         *)
(* Spec       runs of the program from a fresh installation                 *)
(* FairSpec   the same without outside termination, with fair steps         *)
(* LoadSpec   runs that find no file, a non-JSON file or an old-format list *)
(* RecordSpec save_transcribed_video called with arbitrary arguments        *)
(***************************************************************************)
EXTENDS Integers, Sequences, FiniteSets, TLC

(* ------------------------------ bounds -------------------------------- *)
\* longest item list a playlist returns
MaxItems == 2
\* number of runs of the program in one behaviour
MaxRuns == 2
\* the history counter of fetch attempts saturates here
AttemptCap == 4

(* ----------------------------- universe ------------------------------- *)
Videos == {"v1", "v2"}
PlaylistIds == {"P1", "P2"}
\* the title the Source Adapter reports for each playlist (main, line 389)
PlaylistTitles == [p \in PlaylistIds |-> IF p = "P1" THEN "Alpha" ELSE "Beta"]

\* Item lists the Source Adapter can return (fetch_playlist_videos): any
\* finite sequence of video ids, repeats included.
ItemLists == UNION {[1..n -> Videos] : n \in 0..MaxItems}

\* Text is a sequence of characters.
Texts == {<<>>, <<" ">>, <<"h", "i">>}
Whitespace == {" "}
\* a local that is not assigned yet / a file that does not exist
Unset == <<"<unset>">>
NoFile == <<"<nofile>">>

(* ------------------- module-level names of the script ------------------ *)
\* the names as they would be if the script also bound PLAYLIST_ID
ModuleGlobals_withPlaylistId ==
    {"VIDEO_OUTPUT_PATH", "TRANSCRIPTION_OUTPUT_PATH", "CLIENT_SECRETS_FILE",
     "SCOPES", "transcribed_videos_file", "PLAYLIST_ID"}

\* names bound at module level when main() runs (lines 27-58)
ModuleGlobals ==
    {"VIDEO_OUTPUT_PATH", "TRANSCRIPTION_OUTPUT_PATH", "CLIENT_SECRETS_FILE",
     "SCOPES", "transcribed_videos_file"}

\* Evaluating a name that is bound nowhere raises NameError.
NameDefined(name) == name \in ModuleGlobals

\* Lines 205 and 451 pass the global PLAYLIST_ID and the literal title
\* "Unknown Playlist".  The script binds the name nowhere; a binding would
\* be a fixed id of the script, not main's selection.
PLAYLIST_ID == "PL_fixed"
UnknownPlaylist == "Unknown Playlist"

\* the bound as it would be if the loop allowed one attempt more
max_retries_oneMore == 2 + 2

\* download_video_and_audio, line 125
max_retries == 3

(* --------------------------- exception classes ------------------------- *)
\* The classes imported at lines 10-17 and 20, with their base class in
\* pytubefix.exceptions / urllib.error: the five specific conditions all
\* derive from VideoUnavailable, and HTTPError from URLError.
BaseClass ==
    [c \in {"MembersOnly", "VideoPrivate", "VideoRegionBlocked",
            "AgeRestrictedError", "LiveStreamError", "VideoUnavailable",
            "HTTPError", "URLError", "CalledProcessError", "Exception"} |->
        CASE c \in {"MembersOnly", "VideoPrivate", "VideoRegionBlocked",
                    "AgeRestrictedError", "LiveStreamError"} -> "VideoUnavailable"
          [] c = "HTTPError" -> "URLError"
          [] OTHER -> "Exception"]

\* isinstance(e, classes)
IsInstance(e, classes) ==
    \/ e \in classes
    \/ BaseClass[e] \in classes
    \/ BaseClass[BaseClass[e]] \in classes

\* the except clause of lines 199-200
CaughtClasses ==
    {"MembersOnly", "VideoPrivate", "VideoRegionBlocked", "AgeRestrictedError",
     "LiveStreamError", "HTTPError", "VideoUnavailable"}

\* the test as it would be without VideoUnavailable in it
SkipClasses_membersOnly == {"MembersOnly"}

\* the isinstance test of line 202
SkipClasses == {"MembersOnly", "VideoUnavailable"}

\* the six conditions no retry can resolve
PermanentConditions ==
    {"MembersOnly", "VideoPrivate", "VideoRegionBlocked", "AgeRestrictedError",
     "VideoUnavailable", "LiveStreamError"}

\* What a video is when it is fetched: it offers separate video+audio
\* streams, only a combined stream, no stream at all, or it is in one of
\* the permanent conditions.
Natures == {"adaptive", "progressive", "none"} \cup PermanentConditions

\* What one attempt (the body of the try, lines 130-197) can meet: the
\* video's own nature, or a network error (HTTPError, or a URLError that is
\* no HTTPError).
AttemptOutcomes(n) == {n, "HTTPError", "URLError"}

(* ------------------------------ text ----------------------------------- *)
RECURSIVE LStrip(_)
LStrip(s) ==
    IF s = <<>> THEN <<>>
    ELSE IF Head(s) \in Whitespace THEN LStrip(Tail(s)) ELSE s

RECURSIVE RStrip(_)
RStrip(s) ==
    IF s = <<>> THEN <<>>
    ELSE IF s[Len(s)] \in Whitespace THEN RStrip(SubSeq(s, 1, Len(s) - 1)) ELSE s

\* str.strip() (is_video_transcribed, line 340)
Strip(s) == RStrip(LStrip(s))

(* ------------------------------ ledger --------------------------------- *)
InSeq(x, s) == \E i \in 1..Len(s) : s[i] = x

\* a value of the ledger mapping: the dict {'title', 'videos'} that
\* save_transcribed_video makes (line 81), or the plain list that line 65
\* puts under 'default'
DictValue(title, ids) == [kind |-> "dict", title |-> title, videos |-> ids]
ListValue(ids) == [kind |-> "list", title |-> "", videos |-> ids]

EmptyLedger == [p \in {} |-> DictValue("", <<>>)]

\* The file transcribed_videos.json: missing, a complete JSON mapping, a
\* complete JSON list of ids (the old format), or what open(..., 'w') leaves
\* until json.dump has written and the file is closed (nothing, or a prefix
\* of the document).
AbsentFile == [kind |-> "absent", data |-> EmptyLedger]
PartialFile == [kind |-> "partial", data |-> EmptyLedger]
JsonFile(L) == [kind |-> "json", data |-> L]
ListFile(ids) == [kind |-> "list", data |-> [q \in {"ids"} |-> ListValue(ids)]]

\* loading as it would be if a file that does not parse were taken for an
\* empty ledger
Loadable_lenient(f) == f.kind \in {"absent", "json", "list", "partial"}

\* json.load succeeds on the file (or the file is missing)
Loadable(f) == f.kind \in {"absent", "json", "list"}

\* load_transcribed_videos on a loadable file
load_transcribed_videos(f) ==
    IF f.kind = "json" THEN f.data
    ELSE IF f.kind = "list" THEN [q \in {"default"} |-> f.data["ids"]]
    ELSE EmptyLedger

\* the check as it would be if it looked for the id among the mapping's keys
video_exists_in_any_playlist_keys(video_id, transcribed_data) ==
    video_id \in DOMAIN transcribed_data

video_exists_in_any_playlist(video_id, transcribed_data) ==
    \E p \in DOMAIN transcribed_data : InSeq(video_id, transcribed_data[p].videos)

\* line 71: playlist_data.get on a value that is a list raises
\* AttributeError; 'default' is the mapping's first key, so the loop meets
\* it before it can return
GetRaises(transcribed_data) ==
    \E p \in DOMAIN transcribed_data : transcribed_data[p].kind = "list"

\* recording as it would be if the mapping were rebuilt from the selected
\* playlist alone
RecordVideo_onlyCurrent(L, video_id, playlist_id, playlist_title) ==
    LET old == IF playlist_id \in DOMAIN L THEN L[playlist_id]
               ELSE DictValue(playlist_title, <<>>)
    IN  [q \in {playlist_id} |->
            IF InSeq(video_id, old.videos) THEN old
            ELSE [old EXCEPT !.videos = Append(@, video_id)]]

\* recording as it would be without the membership test of line 86
RecordVideo_alwaysAppends(L, video_id, playlist_id, playlist_title) ==
    LET L1 == IF playlist_id \in DOMAIN L THEN L
              ELSE [q \in DOMAIN L \cup {playlist_id} |->
                      IF q = playlist_id
                      THEN DictValue(playlist_title, <<>>)
                      ELSE L[q]]
    IN  [L1 EXCEPT ![playlist_id].videos = Append(@, video_id)]

\* recording as it would be if the id were put at the front of the list
RecordVideo_prepends(L, video_id, playlist_id, playlist_title) ==
    LET L1 == IF playlist_id \in DOMAIN L THEN L
              ELSE [q \in DOMAIN L \cup {playlist_id} |->
                      IF q = playlist_id
                      THEN DictValue(playlist_title, <<>>)
                      ELSE L[q]]
    IN  IF InSeq(video_id, L1[playlist_id].videos) THEN L1
        ELSE [L1 EXCEPT ![playlist_id].videos = <<video_id>> \o @]

\* recording as it would be if the title were stored on every call
RecordVideo_retitles(L, video_id, playlist_id, playlist_title) ==
    LET L1 == [q \in DOMAIN L \cup {playlist_id} |->
                 IF q = playlist_id
                 THEN DictValue(playlist_title,
                                IF q \in DOMAIN L THEN L[q].videos ELSE <<>>)
                 ELSE L[q]]
    IN  IF InSeq(video_id, L1[playlist_id].videos) THEN L1
        ELSE [L1 EXCEPT ![playlist_id].videos = Append(@, video_id)]

\* lines 80-88 of save_transcribed_video: the mapping it is about to dump
RecordVideo(L, video_id, playlist_id, playlist_title) ==
    LET L1 == IF playlist_id \in DOMAIN L THEN L
              ELSE [q \in DOMAIN L \cup {playlist_id} |->
                      IF q = playlist_id
                      THEN DictValue(playlist_title, <<>>)
                      ELSE L[q]]
    IN  IF InSeq(video_id, L1[playlist_id].videos) THEN L1
        ELSE [L1 EXCEPT ![playlist_id].videos = Append(@, video_id)]

(* ------------------------------ state ---------------------------------- *)
VARIABLES
    file,             \* transcribed_videos.json
    transcripts,      \* the transcript files, by <<playlist id, video id>>
    pc,               \* where the process is
    error,            \* the uncaught exception that ended the run, or "none"
    playlist_id,      \* main: the selected playlist
    playlist_title,   \* main: its title (line 389)
    videos,           \* main: the enumerated item list
    idx,              \* main: position of the for loop in videos
    transcribed_data, \* main: the ledger as loaded at line 395
    retry_count,      \* download_video_and_audio
    nature,           \* what the video being fetched is
    transcription,    \* main: the Transcriber's result for this video
    save_data,        \* save_transcribed_video: the mapping being dumped
    runs,             \* number of runs started
    outcome,          \* history: outcome of each item of this run
    attempts,         \* history: attempts made by the current fetch
    seen,             \* history: what the attempts of this item's fetch met
    fileAtStart,      \* history: the ledger file when this item started
    stoppedAt,        \* history: where the process was when the run stopped
    resume,           \* history: the video the previous run was terminated on
    repeat,           \* history: this run repeats a run in which nothing failed
    artifacts         \* history: media files of this item made and not removed

vars == <<file, transcripts, pc, error, playlist_id, playlist_title, videos,
          idx,
          transcribed_data, retry_count, nature, transcription, save_data,
          runs, outcome, attempts, seen, fileAtStart, stoppedAt, resume,
          repeat, artifacts>>

\* main, line 396
playlist_videos ==
    IF playlist_id \in DOMAIN transcribed_data
    THEN transcribed_data[playlist_id].videos ELSE <<>>

video_id == videos[idx]

DiskLedger == load_transcribed_videos(file)

Stopped == {"idle", "done", "crashed", "killed"}
Running == {"loop", "save408", "dump408", "fetch_while", "fetch_try", "save205",
            "dump205", "merge", "extract", "transcribe", "write_open",
            "write_body", "save445", "dump445", "remove_audio", "line451",
            "save451", "dump451"}

\* the calls of save_transcribed_video: lines 205, 408, 445 and 451
SaveCalls == {"save205", "save408", "save445", "save451"}
SaveWrites == {"dump205", "dump408", "dump445", "dump451"}
DumpOf(call) ==
    CASE call = "save205" -> "dump205"
      [] call = "save408" -> "dump408"
      [] call = "save445" -> "dump445"
      [] call = "save451" -> "dump451"

\* the playlist id and title each call passes
SaveId(call) == IF call \in {"save408", "save445"} THEN playlist_id ELSE PLAYLIST_ID
SaveTitle(call) ==
    IF call \in {"save408", "save445"} THEN playlist_title ELSE UnknownPlaylist

\* the files download_video_and_audio and extract_audio leave in
\* VIDEO_OUTPUT_PATH for one video
TempFiles == {"temp_video", "temp_audio"}

\* the stages of the per-video pipeline before the transcript is written
Downloading == {"fetch_while", "fetch_try"}
ActiveStages == Downloading \cup {"merge", "extract", "transcribe"}

\* no run has been started yet
Fresh ==
    /\ transcripts = [k \in PlaylistIds \X Videos |-> NoFile]
    /\ pc = "idle"
    /\ error = "none"
    /\ playlist_id = "P1"
    /\ playlist_title = PlaylistTitles["P1"]
    /\ videos = <<>>
    /\ idx = 1
    /\ transcribed_data = EmptyLedger
    /\ retry_count = 0
    /\ nature = "none"
    /\ transcription = Unset
    /\ save_data = EmptyLedger
    /\ runs = 0
    /\ outcome = <<>>
    /\ attempts = 0
    /\ seen = {}
    /\ fileAtStart = file
    /\ stoppedAt = "none"
    /\ resume = "none"
    /\ repeat = FALSE
    /\ artifacts = {}

\* the program is installed: there is no ledger file yet
Init == file = AbsentFile /\ Fresh

\* The run that has stopped met no failure of a fetch, a tool, a
\* transcription or a file operation and was not terminated: it exhausted
\* its list, or it stopped at line 451 right after a transcription was
\* recorded and its audio removed.
NothingFailed ==
    /\ \/ pc = "done"
       \/ pc = "crashed" /\ stoppedAt = "line451" /\ Strip(transcription) # <<>>
    /\ videos # <<>>
    /\ \A i \in 1..Len(videos) : outcome[i] # "Failed"

\* control moves on to p
Goto(p) == pc' = p /\ UNCHANGED <<error, stoppedAt>>

\* an exception nothing catches ends the run
Raise(e) == pc' = "crashed" /\ error' = e /\ stoppedAt' = pc

\* `continue` / end of the loop body: on to the next item
NextItem(o) ==
    /\ outcome' = [outcome EXCEPT ![idx] = o]
    /\ idx' = idx + 1
    /\ Goto("loop")

(* main, lines 383-399: select a playlist, enumerate it, load the ledger *)
StartRun ==
    /\ pc \in Stopped
    /\ runs < MaxRuns
    /\ runs' = runs + 1
    /\ \E p \in PlaylistIds, items \in ItemLists :
          /\ playlist_id' = p
          /\ playlist_title' = PlaylistTitles[p]
          /\ videos' = items
          /\ outcome' = [i \in 1..Len(items) |-> "None"]
          /\ repeat' = (NothingFailed /\ p = playlist_id /\ items = videos)
    /\ idx' = 1
    /\ retry_count' = 0
    /\ nature' = "none"
    /\ transcription' = Unset
    /\ attempts' = 0
    /\ seen' = {}
    /\ save_data' = EmptyLedger
    /\ fileAtStart' = file
    /\ resume' = IF pc = "killed" /\ stoppedAt \in ActiveStages
                 THEN video_id ELSE "none"
    /\ artifacts' = {}
    /\ IF Loadable(file)
       THEN /\ transcribed_data' = load_transcribed_videos(file)
            /\ pc' = "loop"
            /\ error' = "none"
            /\ stoppedAt' = "none"
       ELSE /\ transcribed_data' = EmptyLedger
            /\ pc' = "crashed"
            /\ error' = "JSONDecodeError"
            /\ stoppedAt' = "load"
    /\ UNCHANGED <<file, transcripts>>

(* main, lines 401-417: the for loop's head and the two dedup checks *)
CheckItem ==
    /\ pc = "loop"
    /\ IF idx > Len(videos)
       THEN /\ Goto("done")
            /\ UNCHANGED <<idx, outcome, nature, retry_count, attempts, seen,
                           fileAtStart, transcription, artifacts>>
       ELSE /\ fileAtStart' = file
            /\ transcription' = Unset
            /\ retry_count' = 0
            /\ attempts' = 0
            /\ seen' = {}
            /\ artifacts' = {}
            /\ IF GetRaises(transcribed_data)
               THEN /\ Raise("AttributeError")
                    /\ UNCHANGED <<idx, outcome, nature>>
               ELSE IF video_exists_in_any_playlist(video_id, transcribed_data)
               THEN /\ Goto("save408")
                    /\ UNCHANGED <<idx, outcome, nature>>
               ELSE IF InSeq(video_id, playlist_videos)
               THEN /\ NextItem("AlreadyDone")
                    /\ UNCHANGED nature
               ELSE /\ Goto("fetch_while")
                    /\ \E n \in Natures : nature' = n
                    /\ UNCHANGED <<idx, outcome>>
    /\ UNCHANGED <<file, transcripts, playlist_id, playlist_title, videos,
                   transcribed_data, save_data, runs, resume, repeat>>

(* save_transcribed_video, lines 77-91: load, update, open for writing *)
SaveOpen ==
    /\ pc \in SaveCalls
    /\ IF Loadable(file)
       THEN /\ save_data' = RecordVideo(load_transcribed_videos(file),
                                        video_id, SaveId(pc), SaveTitle(pc))
            /\ file' = PartialFile
            /\ Goto(DumpOf(pc))
       ELSE /\ Raise("JSONDecodeError")
            /\ UNCHANGED <<file, save_data>>
    /\ UNCHANGED <<transcripts, playlist_id, playlist_title, videos, idx,
                   transcribed_data, retry_count, nature, transcription, runs,
                   outcome, attempts, seen, fileAtStart, resume, repeat,
                   artifacts>>

\* the function returns: its locals are gone
FetchReturns ==
    /\ retry_count' = 0
    /\ nature' = "none"
    /\ attempts' = 0
    /\ seen' = {}

(* save_transcribed_video, line 92 and the close of the file; then main   *)
(* goes on: `continue` after line 408, line 448 after line 445, the next  *)
(* item after line 451; after line 205 the download returns None and main *)
(* continues (lines 419-421)                                              *)
SaveDump ==
    /\ pc \in SaveWrites
    /\ file' = JsonFile(save_data)
    /\ CASE pc = "dump408" ->
               NextItem("Skipped") /\ UNCHANGED <<retry_count, nature, attempts, seen>>
         [] pc = "dump205" ->
               NextItem("Skipped") /\ FetchReturns
         [] pc = "dump445" ->
               /\ outcome' = [outcome EXCEPT ![idx] = "Transcribed"]
               /\ Goto("remove_audio")
               /\ UNCHANGED <<idx, retry_count, nature, attempts, seen>>
         [] pc = "dump451" ->
               /\ idx' = idx + 1
               /\ Goto("loop")
               /\ UNCHANGED <<outcome, retry_count, nature, attempts, seen>>
    /\ save_data' = EmptyLedger
    /\ UNCHANGED <<transcripts, playlist_id, playlist_title, videos,
                   transcribed_data, transcription, runs, fileAtStart, resume,
                   repeat, artifacts>>

(* download_video_and_audio, line 128 and lines 214-215; main 419-421 *)
FetchLoop ==
    /\ pc = "fetch_while"
    /\ IF retry_count < max_retries
       THEN /\ Goto("fetch_try")
            /\ UNCHANGED <<idx, outcome>>
       ELSE NextItem("Failed")
    /\ UNCHANGED <<file, transcripts, playlist_id, playlist_title, videos,
                   transcribed_data,
                   retry_count, nature, transcription, save_data, runs,
                   attempts, seen, fileAtStart, resume, repeat, artifacts>>

\* lines 199-212: the handler of a caught exception e
HandleFetchError(e) ==
    IF IsInstance(e, SkipClasses)
    THEN \* line 205 evaluates PLAYLIST_ID before the call; were the name
         \* bound, save_transcribed_video would run
         IF NameDefined("PLAYLIST_ID")
         THEN /\ Goto("save205")
              /\ UNCHANGED retry_count
         ELSE /\ Raise("NameError")
              /\ UNCHANGED retry_count
    ELSE /\ retry_count' = retry_count + 1
         /\ Goto("fetch_while")

\* one more attempt that met o, and the function is still running
Attempted(o) ==
    /\ attempts' = IF attempts < AttemptCap THEN attempts + 1 ELSE attempts
    /\ seen' = seen \cup {o}
    /\ UNCHANGED nature

(* download_video_and_audio, lines 129-212: one pass through the try *)
FetchAttempt ==
    /\ pc = "fetch_try"
    /\ \E o \in AttemptOutcomes(nature) :
          CASE o = "adaptive" ->
                 /\ Goto("merge")
                 /\ Attempted(o)
                 /\ artifacts' = artifacts \cup TempFiles
                 /\ UNCHANGED retry_count
            [] o = "progressive" ->
                 /\ Goto("extract")
                 /\ FetchReturns
                 /\ artifacts' = artifacts \cup {"video"}
            [] o = "none" ->
                 /\ Goto("fetch_while")
                 /\ Attempted(o)
                 /\ UNCHANGED <<retry_count, artifacts>>
            [] OTHER ->
                 /\ Attempted(o)
                 /\ UNCHANGED artifacts
                 /\ IF IsInstance(o, CaughtClasses)
                    THEN HandleFetchError(o)
                    ELSE Raise(o) /\ UNCHANGED retry_count
    /\ UNCHANGED <<file, transcripts, playlist_id, playlist_title, videos, idx,
                   transcribed_data, transcription, save_data, runs,
                   outcome, fileAtStart, resume, repeat>>

(* download_video_and_audio, lines 161-182: ffmpeg merge, check=True, *)
(* then the two temporary files are removed                           *)
Merge ==
    /\ pc = "merge"
    /\ \/ /\ Goto("extract")
          /\ FetchReturns
          /\ artifacts' = (artifacts \ TempFiles) \cup {"video"}
       \/ /\ Raise("CalledProcessError")
          /\ UNCHANGED <<retry_count, nature, attempts, seen, artifacts>>
    /\ UNCHANGED <<file, transcripts, playlist_id, playlist_title, videos, idx,
                   transcribed_data, transcription, save_data, runs, outcome,
                   fileAtStart, resume, repeat>>

\* extraction as it would be if the ledger were written as soon as the audio
\* exists, before the transcript
ExtractAudio_recordsEarly ==
    /\ pc = "extract"
    /\ \/ /\ Goto("transcribe")
          /\ file' = JsonFile(RecordVideo(load_transcribed_videos(file),
                                         video_id, playlist_id, playlist_title))
          /\ artifacts' = artifacts \cup {"audio"}
          /\ UNCHANGED <<idx, outcome>>
       \/ NextItem("Failed") /\ UNCHANGED <<file, artifacts>>
    /\ UNCHANGED <<transcripts, playlist_id, playlist_title, videos,
                   transcribed_data, retry_count, nature, transcription,
                   save_data, runs, attempts, seen, fileAtStart, resume, repeat>>

(* main, lines 427-434, with extract_audio *)
ExtractAudio ==
    /\ pc = "extract"
    /\ \/ /\ Goto("transcribe")
          /\ artifacts' = artifacts \cup {"audio"}
          /\ UNCHANGED <<idx, outcome>>
       \/ NextItem("Failed") /\ UNCHANGED artifacts
    /\ UNCHANGED <<file, transcripts, playlist_id, playlist_title, videos,
                   transcribed_data, retry_count, nature, transcription,
                   save_data, runs, attempts, seen, fileAtStart, resume, repeat>>

(* main, lines 436-437, with transcribe_audio *)
Transcribe ==
    /\ pc = "transcribe"
    /\ \/ /\ \E t \in Texts : transcription' = t
          /\ Goto("write_open")
       \/ /\ Raise("RuntimeError")
          /\ UNCHANGED transcription
    /\ UNCHANGED <<file, transcripts, playlist_id, playlist_title, videos, idx,
                   transcribed_data, retry_count, nature, save_data, runs,
                   outcome, attempts, seen, fileAtStart, resume, repeat, artifacts>>

(* main, lines 440-441: open the transcript file for writing *)
OpenTranscript ==
    /\ pc = "write_open"
    /\ \/ /\ transcripts' = [transcripts EXCEPT ![<<playlist_id, video_id>>] = <<>>]
          /\ Goto("write_body")
       \/ /\ Raise("OSError")
          /\ UNCHANGED transcripts
    /\ UNCHANGED <<file, playlist_id, playlist_title, videos, idx,
                   transcribed_data,
                   retry_count, nature, transcription, save_data, runs,
                   outcome, attempts, seen, fileAtStart, resume, repeat, artifacts>>

\* the write as it would be if main went on to the save with the transcript
\* file opened and nothing written to it
WriteTranscript_noWrite ==
    /\ pc = "write_body"
    /\ Goto("save445")
    /\ UNCHANGED <<file, transcripts, playlist_id, playlist_title, videos, idx,
                   transcribed_data, retry_count, nature, transcription,
                   save_data, runs, outcome, attempts, seen, fileAtStart,
                   resume, repeat, artifacts>>

(* main, line 442 and the close of the file *)
WriteTranscript ==
    /\ pc = "write_body"
    /\ transcripts' = [transcripts EXCEPT ![<<playlist_id, video_id>>] = transcription]
    /\ Goto("save445")
    /\ UNCHANGED <<file, playlist_id, playlist_title, videos, idx,
                   transcribed_data,
                   retry_count, nature, transcription, save_data, runs,
                   outcome, attempts, seen, fileAtStart, resume, repeat, artifacts>>

(* main, line 448 *)
RemoveAudio ==
    /\ pc = "remove_audio"
    /\ \/ Goto("line451") /\ artifacts' = artifacts \ {"audio"}
       \/ Raise("OSError") /\ UNCHANGED artifacts
    /\ UNCHANGED <<file, transcripts, playlist_id, playlist_title, videos, idx,
                   transcribed_data, retry_count, nature, transcription,
                   save_data, runs, outcome, attempts, seen, fileAtStart,
                   resume, repeat>>

(* main, line 451: PLAYLIST_ID is evaluated before the call *)
RecordUnknownPlaylist ==
    /\ pc = "line451"
    /\ IF NameDefined("PLAYLIST_ID")
       THEN Goto("save451")
       ELSE Raise("NameError")
    /\ UNCHANGED <<file, transcripts, playlist_id, playlist_title, videos, idx,
                   transcribed_data, retry_count, nature, transcription,
                   save_data, runs, outcome, attempts, seen, fileAtStart,
                   resume, repeat, artifacts>>

(* the process is terminated from outside *)
Kill ==
    /\ pc \in Running
    /\ stoppedAt' = pc
    /\ pc' = "killed"
    /\ UNCHANGED <<file, transcripts, error, playlist_id, playlist_title,
                   videos, idx,
                   transcribed_data, retry_count, nature, transcription,
                   save_data, runs, outcome, attempts, seen, fileAtStart,
                   resume, repeat, artifacts>>

\* the steps the process itself takes
Step ==
    \/ CheckItem
    \/ SaveOpen
    \/ SaveDump
    \/ FetchLoop
    \/ FetchAttempt
    \/ Merge
    \/ ExtractAudio
    \/ Transcribe
    \/ OpenTranscript
    \/ WriteTranscript
    \/ RemoveAudio
    \/ RecordUnknownPlaylist

Next == StartRun \/ Step \/ Kill

Spec == Init /\ [][Next]_vars

\* Runs that nothing terminates from outside: a running process keeps
\* taking steps until it stops by itself.
RunNext == StartRun \/ Step

FairSpec == Init /\ [][RunNext]_vars /\ WF_vars(Step)

(* --------------- save_transcribed_video called on its own -------------- *)
\* a list of ids without a repeat
NoRepeat(s) == \A i, j \in 1..Len(s) : s[i] = s[j] => i = j
IdLists ==
    {s \in UNION {[1..n -> Videos] : n \in 0..Cardinality(Videos)} : NoRepeat(s)}

\* titles a playlist can have had when its record was made, and can have now
RecordTitles == {"Alpha", "Beta", "Renamed"}

\* the ledgers save_transcribed_video writes: playlist id -> {title, videos}
WellFormedLedgers ==
    UNION {[D -> {DictValue(t, s) : t \in RecordTitles, s \in IdLists}] :
              D \in SUBSET PlaylistIds}

RecordInit ==
    /\ file \in {AbsentFile} \cup {JsonFile(L) : L \in WellFormedLedgers}
    /\ Fresh

(* a caller evaluates save_transcribed_video(video_id, playlist_id,      *)
(* playlist_title) with arguments of its choice (line 76)                *)
RecordCall ==
    /\ pc \in {"idle", "loop"}
    /\ \E v \in Videos, p \in PlaylistIds, t \in RecordTitles :
          /\ videos' = <<v>>
          /\ playlist_id' = p
          /\ playlist_title' = t
    /\ idx' = 1
    /\ outcome' = <<"None">>
    /\ fileAtStart' = file
    /\ Goto("save408")
    /\ UNCHANGED <<file, transcripts, transcribed_data, retry_count, nature,
                   transcription, save_data, runs, attempts, seen, resume,
                   repeat, artifacts>>

RecordNext == RecordCall \/ SaveOpen \/ SaveDump

RecordSpec == RecordInit /\ [][RecordNext]_vars

(* ------------- runs that find any kind of ledger file on disk ----------- *)
\* what can be at the ledger's path when the program is first run: nothing,
\* a file that is not JSON, or a list of ids written in the old format
\* (lines 64-65)
LoadInit ==
    /\ file \in {AbsentFile, PartialFile} \cup {ListFile(ids) : ids \in IdLists}
    /\ Fresh

LoadSpec == LoadInit /\ [][Next]_vars

(* ------------------------- notions the claims use ---------------------- *)
\* the for loop is on an item
HasItem == idx \in 1..Len(videos)

\* video v is in the ledger L under playlist p
Recorded(p, v, L) == p \in DOMAIN L /\ InSeq(v, L[p].videos)

\* every entry of ledger L is in ledger M
Keeps(L, M) ==
    \A p \in DOMAIN L : \A i \in 1..Len(L[p].videos) : Recorded(p, L[p].videos[i], M)

\* is_video_transcribed, lines 331-344: the file exists and has content
is_video_transcribed(v, p) ==
    /\ transcripts[<<p, v>>] # NoFile
    /\ Strip(transcripts[<<p, v>>]) # <<>>

(* ------------------------------- C1 ------------------------------------ *)
\* C1: a video whose Transcriber result is empty or whitespace-only gets no
\* ledger entry under any playlist and no complete transcript file, and is
\* not counted as transcribed.
C1_EmptyTranscriptRejected ==
    (HasItem /\ transcription # Unset /\ Strip(transcription) = <<>>) =>
        /\ ~video_exists_in_any_playlist(video_id, DiskLedger)
        /\ ~is_video_transcribed(video_id, playlist_id)
        /\ outcome[idx] # "Transcribed"

(* ------------------------------- C2 ------------------------------------ *)
\* C2: a call of download_video_and_audio always returns: whenever the
\* process is inside the retry loop, it eventually is outside it.
C2_FetchTerminates == (pc \in Downloading) ~> (pc \notin Downloading)

(* ------------------------------- C3 ------------------------------------ *)
\* C3: a fetch that hits a permanent condition never ends the run; once the
\* item is finished it is Skipped, it is in the ledger under the selected
\* playlist and it has no transcript file.
C3_PermanentSkipped ==
    /\ (pc = "crashed" /\ HasItem) => seen \cap PermanentConditions = {}
    /\ (pc = "loop" /\ idx > 1 /\ seen \cap PermanentConditions # {}) =>
          /\ outcome[idx - 1] = "Skipped"
          /\ Recorded(playlist_id, videos[idx - 1], DiskLedger)
          /\ transcripts[<<playlist_id, videos[idx - 1]>>] = NoFile

(* ------------------------------- C4 ------------------------------------ *)
\* C4: once an attempt has met one of the six permanent conditions the fetch
\* makes no further attempt; a fetch that met nothing else made exactly one
\* attempt; and the retry counter moves only on a transient (HTTP) error.
C4_PermanentNotRetried ==
    HasItem =>
        /\ seen \cap PermanentConditions # {} => pc \notin Downloading
        /\ (seen # {} /\ seen \subseteq PermanentConditions) => attempts = 1
        /\ retry_count > 0 => "HTTPError" \in seen

\* a region-blocked video was met on the first and only attempt
C4_Witness ==
    /\ HasItem
    /\ seen = {"VideoRegionBlocked"}
    /\ attempts = 1
    /\ pc = "crashed"

(* ------------------------------- C5 ------------------------------------ *)
\* C5: a failure of one video's merge, transcription or transcript write
\* never ends the run.
C5_FailureIsolated ==
    pc = "crashed" => stoppedAt \notin {"merge", "transcribe", "write_open"}

(* ------------------------------- C6 ------------------------------------ *)
\* C6: a run ends normally only with an outcome for every item, and it does
\* not stop on a video it has transcribed and recorded (a failed cleanup of
\* the audio file aside).
C6_RunCompletes ==
    /\ pc = "done" => \A i \in 1..Len(videos) : outcome[i] # "None"
    /\ (pc = "crashed" /\ HasItem /\ outcome[idx] = "Transcribed") =>
          stoppedAt = "remove_audio"

(* ------------------------------- C7 ------------------------------------ *)
\* C7: a fetch whose every attempt fails with a transient error makes at
\* most 3 attempts and leaves the ledger file alone; having given up after
\* the third, the item is Failed, the video is in the ledger under no
\* playlist, and the run is at the loop head for the next item, not stopped.
C7_TransientGivesUp ==
    /\ (pc \in Downloading /\ seen \subseteq {"HTTPError"}) =>
          /\ attempts <= 3
          /\ attempts = retry_count
          /\ file = fileAtStart
    /\ (pc = "loop" /\ idx > 1 /\ seen = {"HTTPError"}) =>
          /\ attempts = 3
          /\ outcome[idx - 1] = "Failed"
          /\ file = fileAtStart
          /\ ~video_exists_in_any_playlist(videos[idx - 1], DiskLedger)
    /\ pc = "crashed" => seen # {"HTTPError"}

\* the first of two items was given up after three transient errors and the
\* run is about to take the second
C7_Witness ==
    /\ pc = "loop"
    /\ Len(videos) = 2
    /\ idx = 2
    /\ seen = {"HTTPError"}
    /\ attempts = 3
    /\ outcome[1] = "Failed"

(* ------------------------------- C8 ------------------------------------ *)
\* C8: whenever the process has stopped, however it stopped, the ledger file
\* is missing or parses as a mapping.
C8_LedgerAlwaysLoadable == pc \in Stopped => Loadable(file)

(* ------------------------------- C9 ------------------------------------ *)
\* C9: terminating the process while a video is being downloaded, merged,
\* extracted or transcribed leaves the ledger file as it was when the video
\* started, with no entry for the video; and the next run, on reaching that
\* video, starts downloading it.
C9_InterruptLeavesLedger ==
    [][ /\ (pc \in ActiveStages /\ pc' = "killed") =>
              /\ file' = fileAtStart'
              /\ Loadable(file')
              /\ ~video_exists_in_any_playlist(video_id', DiskLedger')
        /\ (pc = "loop" /\ HasItem /\ video_id = resume /\ pc' # "killed") =>
              /\ pc' = "fetch_while"
              /\ retry_count' = 0
              /\ file' = file ]_vars

\* the run after an interrupted one is downloading the interrupted video
C9_Witness ==
    /\ resume # "none"
    /\ HasItem
    /\ video_id = resume
    /\ pc = "fetch_while"

(* ------------------------------- C10 ----------------------------------- *)
\* C10: whenever the process has stopped, every entry the ledger file held
\* when the current item started is still in it, and every video this run
\* transcribed is in it.
C10_ProgressNeverLost ==
    pc \in Stopped =>
        /\ Keeps(load_transcribed_videos(fileAtStart), DiskLedger)
        /\ \A i \in 1..Len(videos) :
              outcome[i] = "Transcribed" => Recorded(playlist_id, videos[i], DiskLedger)

\* C11: a run that repeats, on the same playlist with the same items, a run
\* in which nothing failed starts no fetch and writes no transcript, and
\* whenever it is not inside a save the ledger on disk is the one it loaded.
C11_RepeatRunIdle ==
    repeat =>
        /\ pc \in {"loop", "save408", "dump408", "done", "killed"}
        /\ pc \in {"loop", "save408", "done"} => DiskLedger = transcribed_data

\* C12: whenever a video is being fetched, merged, extracted or transcribed,
\* the ledger on disk holds its id under no playlist: a video that is in the
\* durable ledger is never fetched or transcribed again, whatever the runs
\* and the item lists (repeats included) have been.
C12_RecordedNeverReprocessed ==
    (HasItem /\ pc \in ActiveStages) =>
        \A p \in DOMAIN DiskLedger : ~Recorded(p, video_id, DiskLedger)

\* a list that names a recorded video twice: the second occurrence is met
\* and goes to the relabel of line 408, not to a fetch
C12_Witness ==
    /\ Len(videos) = 2 /\ videos[1] = videos[2]
    /\ idx = 2 /\ pc = "save408"
    /\ \E p \in DOMAIN DiskLedger : Recorded(p, video_id, DiskLedger)

\* C13: a video the loaded ledger holds under a playlist A other than the
\* selected playlist B, once the loop has taken it up, goes through the save
\* of line 408 only: no fetch attempt and no transcription is made for it, and
\* once the loop has moved on the ledger on disk holds it under B and still
\* under A.
C13_RelabelWithoutFetch ==
    \A A \in PlaylistIds \ {playlist_id} :
        /\ (HasItem /\ Recorded(A, video_id, transcribed_data)
              /\ pc # "loop" /\ ~(pc = "killed" /\ stoppedAt = "loop")) =>
              /\ pc \in {"save408", "dump408", "killed"}
              /\ attempts = 0
              /\ transcription = Unset
        /\ (pc = "loop" /\ idx > 1
              /\ Recorded(A, videos[idx - 1], transcribed_data)) =>
              /\ outcome[idx - 1] = "Skipped"
              /\ Recorded(playlist_id, videos[idx - 1], DiskLedger)
              /\ Recorded(A, videos[idx - 1], DiskLedger)

\* the relabel has happened for a video that was under the other playlist
\* only
C13_Witness ==
    /\ pc = "loop" /\ idx = 2 /\ outcome[1] = "Skipped"
    /\ ~Recorded(playlist_id, videos[1], transcribed_data)
    /\ \E A \in PlaylistIds \ {playlist_id} :
          Recorded(A, videos[1], transcribed_data)

\* C14: every playlist record of the ledger on disk is under a playlist id
\* the program selected, with that playlist's real title (never the
\* placeholder title), and while an item is processed no record other than
\* the selected playlist's differs from what it was when the item started.
C14_RecordsUnderSelection ==
    (Loadable(file) /\ Loadable(fileAtStart)) =>
        \A p \in DOMAIN DiskLedger :
            /\ p \in PlaylistIds
            /\ DiskLedger[p].title = PlaylistTitles[p]
            /\ DiskLedger[p].title # UnknownPlaylist
            /\ p # playlist_id =>
                  /\ p \in DOMAIN load_transcribed_videos(fileAtStart)
                  /\ DiskLedger[p] = load_transcribed_videos(fileAtStart)[p]

\* a record has just been made for a transcribed video, next to a record of
\* the other playlist
C14_Witness ==
    /\ HasItem /\ pc = "remove_audio" /\ outcome[idx] = "Transcribed"
    /\ file # fileAtStart
    /\ Recorded(playlist_id, video_id, DiskLedger)
    /\ \E p \in DOMAIN DiskLedger : p # playlist_id

\* C15: from any well-formed ledger, after any sequence of record calls, no
\* video id is twice in the list of one playlist (the same id may be in the
\* lists of several playlists).
C15_NoRepeatInPlaylist ==
    \A p \in DOMAIN DiskLedger : NoRepeat(DiskLedger[p].videos)

\* a call has recorded an id that the playlist already held, and the id is
\* under the other playlist as well
C15_Witness ==
    /\ pc = "loop" /\ idx = 2
    /\ Recorded(playlist_id, videos[1], load_transcribed_videos(fileAtStart))
    /\ \A p \in PlaylistIds : Recorded(p, videos[1], DiskLedger)

\* C16: a run on playlist P1 with items [v1, v2] that loaded the ledger
\* P1: [v1], and in which nothing failed, has relabelled v1 without a fetch,
\* has fetched and transcribed v2 only, and leaves the ledger P1: [v1, v2]
\* with v2's transcript on disk.
C16_OnlyNewVideoProcessed ==
    (/\ playlist_id = "P1"
     /\ videos = <<"v1", "v2">>
     /\ transcribed_data = [q \in {"P1"} |-> DictValue("Alpha", <<"v1">>)]
     /\ NothingFailed) =>
        /\ outcome = <<"Skipped", "Transcribed">>
        /\ idx = 2
        /\ transcripts[<<"P1", "v2">>] = transcription
        /\ DiskLedger = [q \in {"P1"} |-> DictValue("Alpha", <<"v1", "v2">>)]

\* the run of the scenario has ended
C16_Witness ==
    /\ playlist_id = "P1"
    /\ videos = <<"v1", "v2">>
    /\ transcribed_data = [q \in {"P1"} |-> DictValue("Alpha", <<"v1">>)]
    /\ NothingFailed
    /\ outcome[2] = "Transcribed"

\* C17: when a call save_transcribed_video(v, p, t) has returned, the ledger
\* has the playlists it had plus p; every record other than p's is as it
\* was; p's record, if there was none, is {title t, videos [v]}, and
\* otherwise keeps its title and its list, with v appended only if v was
\* not in it; and the same call made again would leave this ledger as it is.
C17_RecordIsIdempotentInsert ==
    (pc = "loop" /\ idx = 2) =>
        LET L == load_transcribed_videos(fileAtStart)
            M == DiskLedger
            v == videos[1]
            p == playlist_id
        IN  /\ DOMAIN M = DOMAIN L \cup {p}
            /\ \A q \in DOMAIN L \ {p} : M[q] = L[q]
            /\ p \notin DOMAIN L => M[p] = DictValue(playlist_title, <<v>>)
            /\ p \in DOMAIN L =>
                  /\ M[p].title = L[p].title
                  /\ M[p].videos = IF InSeq(v, L[p].videos) THEN L[p].videos
                                   ELSE Append(L[p].videos, v)
            /\ RecordVideo(M, v, p, playlist_title) = M

\* a call has added a new id to a playlist whose stored title is not the
\* title passed, next to a record of another playlist
C17_Witness ==
    /\ pc = "loop" /\ idx = 2
    /\ playlist_id \in DOMAIN load_transcribed_videos(fileAtStart)
    /\ load_transcribed_videos(fileAtStart)[playlist_id].title # playlist_title
    /\ ~Recorded(playlist_id, videos[1], load_transcribed_videos(fileAtStart))
    /\ Recorded(playlist_id, videos[1], DiskLedger)
    /\ DOMAIN DiskLedger = PlaylistIds

\* the loop has reached line 451 for its item, or was stopped there
AtLine451 ==
    HasItem /\ (pc = "line451" \/ (pc \in {"crashed", "killed"} /\ stoppedAt = "line451"))

\* C18 as stated: when a video has been recorded and the clean-up has run,
\* its transcript is written, its ledger record is persisted, and neither
\* its audio file nor its video file is left.
C18_ArtifactsDeleted ==
    AtLine451 =>
        /\ transcripts[<<playlist_id, video_id>>] = transcription
        /\ Recorded(playlist_id, video_id, DiskLedger)
        /\ artifacts \cap {"audio", "video"} = {}

\* C18: for the video in hand, the save of line 445 starts only when the
\* transcript has been written and closed, with the audio and video files
\* still there; the audio file is gone only after the ledger record is
\* persisted; and at line 451 the audio file is deleted while the
\* downloaded video file is kept (the two temporary files of a merge were
\* removed when the download returned).
C18_TranscriptLedgerAudio ==
    HasItem =>
        /\ (pc \in {"save445", "dump445"} \/ outcome[idx] = "Transcribed") =>
              /\ transcription # Unset
              /\ transcripts[<<playlist_id, video_id>>] = transcription
        /\ pc \in {"save445", "dump445"} => {"audio", "video"} \subseteq artifacts
        /\ (transcription # Unset /\ "audio" \notin artifacts) =>
              /\ outcome[idx] = "Transcribed"
              /\ Recorded(playlist_id, video_id, DiskLedger)
        /\ AtLine451 => artifacts = {"video"}

\* a video has been transcribed and recorded and its audio file removed
C18_Witness ==
    /\ HasItem /\ pc = "line451" /\ outcome[idx] = "Transcribed"
    /\ Recorded(playlist_id, video_id, DiskLedger)
    /\ "audio" \notin artifacts

\* C19: a failure to delete the audio file after the record never ends the
\* run: the run is never stopped by an exception at line 448.
C19_CleanupFailureNotFatal ==
    pc = "crashed" => stoppedAt # "remove_audio"

\* the run loaded a ledger in the old format: a list put under 'default'
LegacySnapshot == GetRaises(transcribed_data)

====
